---- MODULE Spec2Model ----
(***************************************************************************)
(* Real-time Whisper WebGPU transcription: the controller (src/main.ts,    *)
(* class App), the worker (src/worker.ts) and the two message channels     *)
(* between them.                                                           *)
(*                                                                         *)
(* Spec           : controller + capture source + worker + channels, the   *)
(*                  recognition loop.                                      *)
(* SpecLang       : the same loop with recognition-language changes.       *)
(* SpecWorker     : the worker alone, driven by arbitrary requests.        *)
(* SpecController : the controller alone, driven by arbitrary events.      *)
(* SpecSelect     : the controller with the two translation-language       *)
(*                  selectors, driven by worker events.                    *)
(* SpecTranslate  : the recognition loop with both translations, the       *)
(*                  translator loaded, on the success path.                *)
(* SpecPage       : the page with or without WebGPU and a user at every    *)
(*                  control.                                               *)
(* SpecLedger     : the controller while the model loads, with the         *)
(*                  runtime's progress records.                            *)
(* SpecLive       : the worker and the controller's listener, with         *)
(*                  fairness.                                              *)
(*                                                                         *)
(* Optional JavaScript values (undefined / null) are sequences of length   *)
(* 0 or 1: <<>> is undefined, <<v>> is the value v.                        *)
(***************************************************************************)
EXTENDS Integers, Sequences, FiniteSets, TLC

\* ------------------------------------------------------------------ bounds
\* Requests waiting in the channel to the worker.
MaxInbox == 1
\* Events waiting in the channel to the controller.
MaxOutbox == 1
\* Concurrent load / generate / loadTranslator / translate calls in the worker.
MaxTasks == 2
\* Milliseconds of one transcription the model follows.
MaxClock == 1
\* Blobs the capture source has handed over since it was last started.
MaxChunks == 3
\* FileReader reads / decodeAudioData calls in flight.
MaxReads == 1
\* Events the capture source has queued for the controller.
MaxRecEvents == 3
\* Pending 25 ms retry timers.
MaxTimers == 1
\* Remote translation requests awaiting their response.
MaxFetches == 1

\* --------------------------------------------------------- program constants
\* worker.ts:12 (64 in the source; scaled so that TLC can enumerate a stream).
MAX_NEW_TOKENS == 3
\* main.ts:22-24 (16_000 samples per second and 30 seconds in the source,
\* scaled: one sample per second, two seconds).
WHISPER_SAMPLING_RATE == 1
MAX_AUDIO_LENGTH == 2
MAX_SAMPLES == WHISPER_SAMPLING_RATE * MAX_AUDIO_LENGTH

\* ------------------------------------------------------------------- values
Languages == {"en", "fr"}
\* What tokenizer.batch_decode can return for one window ("" for silence).
Outputs == {"", "hello"}
\* What the translation model can return.
Translations == {"bonjour"}

\* translate(): langMap (29 entries in the source, three of them kept) and
\* the target codes a request can carry: the selector offers codes the table
\* does not have ("ca" is one of them).
langMap == [c \in {"en", "fr", "it"} |->
               CASE c = "en" -> "eng_Latn" [] c = "fr" -> "fra_Latn" [] c = "it" -> "ita_Latn"]
TargetCodes == {"fr", "it", "ca"}

\* The files a progress record can name ("" stands for a record without a
\* file), and the percentages it can carry.
Files == {"tokenizer.json", "model.onnx"}
Percentages == {0, 50}

AsrArtifacts == {"tokenizer", "processor", "model"}
TrArtifacts == {"tokenizer", "model"}

VARIABLES
    \* ---- main.ts, class App
    status,         \* this.status: "null", "loading" or "ready"
    language,       \* this.language
    translationLanguage,      \* this.translationLanguage
    localTranslationLanguage, \* this.localTranslationLanguage
    text,           \* this.text
    tps,            \* this.tps
    isProcessing,   \* this.isProcessing
    recording,      \* this.recording
    chunks,         \* this.chunks: the samples held by each Blob
    translatorLoaded,       \* this.translatorLoaded
    translatedText,         \* this.translatedText
    localTranslatedText,    \* this.localTranslatedText
    translatorButtonDisabled, \* this.loadTranslatorButton.disabled
    fetches,        \* translateText() calls awaiting fetch / response.json()
    \* ---- the capture source (MediaRecorder, FileReader, AudioContext, timers)
    recorder,       \* this.recorder: "null", or its state "inactive" / "recording"
    recEvents,      \* start / dataavailable / stop events queued for the controller
    reads,          \* blobs being read and decoded (samples of each)
    timers,         \* pending setTimeout( requestData, 25 ) callbacks
    progressItems,  \* this.progressItems: file -> the percentage its Progress shows
    webgpu,         \* IS_WEBGPU_AVAILABLE
    \* ---- who drives the worker: "app", or a client of one session
    client,
    \* ---- worker.ts
    processing,     \* let processing (the worker's in-flight flag)
    asr,            \* AutomaticSpeechRecognitionPipeline.{tokenizer,processor,model}
    trn,            \* TranslationPipeline.{tokenizer,model}
    asrLoads,       \* from_pretrained calls made so far, per recognition artifact
    trnLoads,       \* from_pretrained calls made so far, per translation artifact
    tasks,          \* the running load / generate / loadTranslator / translate calls,
                    \* each with its position and locals
    \* ---- the channel
    toWorker,       \* worker.postMessage: controller -> worker, in order
    toMain          \* self.postMessage: worker -> controller, in order

workerVars == <<processing, asr, trn, asrLoads, trnLoads, tasks>>
chanVars == <<toWorker, toMain>>
appVars == <<status, language, translationLanguage, localTranslationLanguage, text, tps, isProcessing, recording, chunks,
             translatorLoaded, translatedText, localTranslatedText,
             translatorButtonDisabled, fetches>>
captureVars == <<recorder, recEvents, reads, timers>>
vars == <<appVars, captureVars, client, webgpu, progressItems, workerVars, chanVars>>

\* ------------------------------------------------------------------ helpers
Last(s) == s[Len(s)]
RemoveAt(s, i) == SubSeq(s, 1, i - 1) \o SubSeq(s, i + 1, Len(s))
Min(a, b) == IF a < b THEN a ELSE b

\* ----------------------------------------------------------------- messages
MsgLoad == [type |-> "load"]
MsgLoadTranslator == [type |-> "load-translator"]
MsgGenerate(audio, lang) ==
    [type |-> "generate", data |-> [audio |-> audio, language |-> lang]]
MsgTranslate(txt, src, tgt) ==
    [type |-> "translate",
     data |-> [text |-> txt, sourceLanguage |-> src, targetLanguage |-> tgt]]

EvLoading(d) == [status |-> "loading", data |-> d]
EvReady == [status |-> "ready"]
EvStart == [status |-> "start"]
EvUpdate(out, rate, n) ==
    [status |-> "update", output |-> out, tps |-> rate, numTokens |-> n]
EvComplete(out) == [status |-> "complete", output |-> out]
EvLoadingTranslator == [status |-> "loading-translator"]
\* What a progress callback posts: the library's progress record for a file.
EvProgress(session, artifact) ==
    [status |-> "progress", session |-> session, file |-> artifact]
\* A progress record of the runtime as the controller reads it: status
\* initiate, progress or done, data.file, data.progress.
EvFile(kind, file, pct) == [status |-> kind, file |-> file, progress |-> pct]
EvTranslatorReady == [status |-> "translator-ready"]
EvTranslationComplete(out) == [status |-> "translation-complete", output |-> out]

\* ------------------------------------------------------------ memoized loads
NullSlot == [st |-> "null", id |-> 0, cb |-> FALSE]
\* A from_pretrained call: a new pending promise, the count-th + 1 of its
\* artifact; cb: whether a progress callback was passed to it.
FromPretrained(count, cb) == [st |-> "pending", id |-> count + 1, cb |-> cb]

\* this.x = X.from_pretrained(...), a slip for ??=: loads on every call.
PlainAssign(cur, count, cb) == FromPretrained(count, cb)

\* ??= that also loads again over a rejected promise (a slip: a retry).
RetryAssign(cur, count, cb) ==
    IF cur.st \in {"null", "rejected"} THEN FromPretrained(count, cb) ELSE cur

\* ??= that hands a later caller's callback to the load in flight (a slip).
LateSubscribe(cur, count, cb) ==
    IF cur.st = "null" THEN FromPretrained(count, cb)
    ELSE [cur EXCEPT !.cb = cur.cb \/ cb]

\* this.x ??= X.from_pretrained(...): the right side is evaluated, and the load
\* started, only when this.x is null.
NullishAssign(cur, count, cb) ==
    IF cur.st = "null" THEN FromPretrained(count, cb) ELSE cur

\* getInstance(progress_callback), up to its return: the static fields after
\* the ??= assignments, the from_pretrained calls made, and the promises the
\* returned Promise.all waits for.
GetInstance(pipe, loads, cb) ==
    LET np == [a \in DOMAIN pipe |-> NullishAssign(pipe[a], loads[a], cb)]
    IN  [pipe  |-> np,
         loads |-> [a \in DOMAIN pipe |->
                       IF np[a].id = loads[a] + 1 THEN loads[a] + 1 ELSE loads[a]],
         inst  |-> [a \in DOMAIN pipe |-> np[a].id]]

\* Promise.all over the promises a caller holds: fulfilled when all are,
\* rejected as soon as one is.
AllResolved(pipe, inst) ==
    \A a \in DOMAIN inst : pipe[a].id = inst[a] /\ pipe[a].st = "resolved"
AnyRejected(pipe, inst) ==
    \E a \in DOMAIN inst : pipe[a].id = inst[a] /\ pipe[a].st = "rejected"

\* ------------------------------------------------------------------ worker
WorkerInit ==
    /\ processing = FALSE
    /\ asr = [a \in AsrArtifacts |-> NullSlot]
    /\ trn = [a \in TrArtifacts |-> NullSlot]
    /\ asrLoads = [a \in AsrArtifacts |-> 0]
    /\ trnLoads = [a \in TrArtifacts |-> 0]
    /\ tasks = <<>>

\* The inference runtime fulfils a pending from_pretrained promise.
AsrResolved ==
    /\ \E a \in AsrArtifacts :
          /\ asr[a].st = "pending"
          /\ asr' = [asr EXCEPT ![a].st = "resolved"]
    /\ UNCHANGED <<processing, trn, asrLoads, trnLoads, tasks>>
    /\ UNCHANGED <<chanVars, appVars, captureVars, client, webgpu, progressItems>>

\* The inference runtime rejects a pending from_pretrained promise (the fetch
\* or the parse failed).
AsrRejected ==
    /\ \E a \in AsrArtifacts :
          /\ asr[a].st = "pending"
          /\ asr' = [asr EXCEPT ![a].st = "rejected"]
    /\ UNCHANGED <<processing, trn, asrLoads, trnLoads, tasks>>
    /\ UNCHANGED <<chanVars, appVars, captureVars, client, webgpu, progressItems>>

TrnResolved ==
    /\ \E a \in TrArtifacts :
          /\ trn[a].st = "pending"
          /\ trn' = [trn EXCEPT ![a].st = "resolved"]
    /\ UNCHANGED <<processing, asr, asrLoads, trnLoads, tasks>>
    /\ UNCHANGED <<chanVars, appVars, captureVars, client, webgpu, progressItems>>

TrnRejected ==
    /\ \E a \in TrArtifacts :
          /\ trn[a].st = "pending"
          /\ trn' = [trn EXCEPT ![a].st = "rejected"]
    /\ UNCHANGED <<processing, asr, asrLoads, trnLoads, tasks>>
    /\ UNCHANGED <<chanVars, appVars, captureVars, client, webgpu, progressItems>>

\* from_pretrained reports progress of a load in flight to the
\* progress_callback it was given; load()'s callback posts the record.
AsrProgress ==
    /\ Len(toMain) < MaxOutbox
    /\ \E a \in AsrArtifacts :
          /\ asr[a].st = "pending" /\ asr[a].cb
          /\ toMain' = Append(toMain, EvProgress("asr", a))
    /\ UNCHANGED <<workerVars, toWorker>>
    /\ UNCHANGED <<appVars, captureVars, client, webgpu, progressItems>>

\* The same for the translation session; loadTranslator()'s callback posts.
TrnProgress ==
    /\ Len(toMain) < MaxOutbox
    /\ \E a \in TrArtifacts :
          /\ trn[a].st = "pending" /\ trn[a].cb
          /\ toMain' = Append(toMain, EvProgress("trn", a))
    /\ UNCHANGED <<workerVars, toWorker>>
    /\ UNCHANGED <<appVars, captureVars, client, webgpu, progressItems>>

\* message listener, case 'load': load() up to its first await.
RecvLoad ==
    /\ toWorker # <<>> /\ Head(toWorker).type = "load"
    /\ Len(toMain) < MaxOutbox /\ Len(tasks) < MaxTasks
    /\ LET g == GetInstance(asr, asrLoads, TRUE)
       IN  /\ asr' = g.pipe
           /\ asrLoads' = g.loads
           /\ tasks' = Append(tasks, [fn |-> "load", pc |-> "awaitInstance", inst |-> g.inst])
    /\ toWorker' = Tail(toWorker)
    /\ toMain' = Append(toMain, EvLoading("Loading model..."))
    /\ UNCHANGED <<processing, trn, trnLoads>>
    /\ UNCHANGED <<appVars, captureVars, client, webgpu, progressItems>>

\* load(): getInstance resolved; the warm-up model.generate is started.
LoadInstanceReady ==
    /\ \E i \in 1..Len(tasks) :
          /\ tasks[i].fn = "load" /\ tasks[i].pc = "awaitInstance"
          /\ AllResolved(asr, tasks[i].inst)
          /\ tasks' = [tasks EXCEPT ![i].pc = "warmup"]
    /\ Len(toMain) < MaxOutbox
    /\ toMain' = Append(toMain, EvLoading("Compiling shaders and warming up model..."))
    /\ UNCHANGED <<processing, asr, trn, asrLoads, trnLoads, toWorker>>
    /\ UNCHANGED <<appVars, captureVars, client, webgpu, progressItems>>

\* load(): the warm-up model.generate resolved.
LoadWarmupDone ==
    /\ \E i \in 1..Len(tasks) :
          /\ tasks[i].fn = "load" /\ tasks[i].pc = "warmup"
          /\ tasks' = RemoveAt(tasks, i)
    /\ Len(toMain) < MaxOutbox
    /\ toMain' = Append(toMain, EvReady)
    /\ UNCHANGED <<processing, asr, trn, asrLoads, trnLoads, toWorker>>
    /\ UNCHANGED <<appVars, captureVars, client, webgpu, progressItems>>

\* load(): getInstance or the warm-up rejected; load() has no try/catch.
LoadThrows ==
    /\ \E i \in 1..Len(tasks) :
          /\ tasks[i].fn = "load"
          /\ \/ tasks[i].pc = "awaitInstance" /\ AnyRejected(asr, tasks[i].inst)
             \/ tasks[i].pc = "warmup"
          /\ tasks' = RemoveAt(tasks, i)
    /\ UNCHANGED <<processing, asr, trn, asrLoads, trnLoads>>
    /\ UNCHANGED <<chanVars, appVars, captureVars, client, webgpu, progressItems>>

\* if ( processing ) return, with the test left out (a slip): every request
\* is let through.
GateOpen(busy) == FALSE

\* generate(): if ( processing ) return;
GateClosed(busy) == busy

\* message listener, case 'generate', generate() up to its first await:
\* a request that finds processing set returns at once.
RecvGenerate ==
    /\ toWorker # <<>> /\ Head(toWorker).type = "generate"
    /\ toWorker' = Tail(toWorker)
    /\ IF GateClosed(processing)
       THEN UNCHANGED <<workerVars, toMain>>
       ELSE /\ Len(toMain) < MaxOutbox /\ Len(tasks) < MaxTasks
            /\ processing' = TRUE
            /\ toMain' = Append(toMain, EvStart)
            /\ LET g == GetInstance(asr, asrLoads, FALSE)
               IN  /\ asr' = g.pipe
                   /\ asrLoads' = g.loads
                   /\ tasks' = Append(tasks,
                          [fn |-> "generate", pc |-> "awaitInstance", inst |-> g.inst,
                           startTime |-> <<>>, now |-> 0, numTokens |-> 0])
            /\ UNCHANGED <<trn, trnLoads>>
    /\ UNCHANGED <<appVars, captureVars, client, webgpu, progressItems>>

\* generate(): getInstance resolved; the streamer is built, processor(audio) called.
GenInstanceReady ==
    /\ \E i \in 1..Len(tasks) :
          /\ tasks[i].fn = "generate" /\ tasks[i].pc = "awaitInstance"
          /\ AllResolved(asr, tasks[i].inst)
          /\ tasks' = [tasks EXCEPT ![i].pc = "processor"]
    /\ UNCHANGED <<processing, asr, trn, asrLoads, trnLoads>>
    /\ UNCHANGED <<chanVars, appVars, captureVars, client, webgpu, progressItems>>

\* generate(): processor(audio) resolved; model.generate is called.
GenProcessorDone ==
    /\ \E i \in 1..Len(tasks) :
          /\ tasks[i].fn = "generate" /\ tasks[i].pc = "processor"
          /\ tasks' = [tasks EXCEPT ![i].pc = "generate"]
    /\ UNCHANGED <<processing, asr, trn, asrLoads, trnLoads>>
    /\ UNCHANGED <<chanVars, appVars, captureVars, client, webgpu, progressItems>>

\* numTokens / (performance.now() - startTime) * 1000, kept as the fraction
\* num / den (den = 0 is JavaScript's Infinity).
TokensPerSecond(n, elapsedMs) == [num |-> n * 1000, den |-> elapsedMs]

\* tps computed from the count before numTokens++ (a slip for the code's order).
CallbackTpsBefore(k, startTime, now) ==
    IF k > 0 THEN <<TokensPerSecond(k, now - startTime)>> ELSE <<>>

\* callback_function: if ( numTokens++ > 0 ) tps = numTokens / (now - startTime) * 1000;
\* k is numTokens on entry, so the division sees k + 1.
CallbackTps(k, startTime, now) ==
    IF k > 0 THEN <<TokensPerSecond(k + 1, now - startTime)>> ELSE <<>>

\* generate(): the streamer invokes callback_function for a piece of output.
\* now is the last performance.now() read, counted from the first callback of
\* the request (the code uses only differences).
GenCallback ==
    /\ Len(toMain) < MaxOutbox
    /\ \E i \in 1..Len(tasks) :
          /\ tasks[i].fn = "generate" /\ tasks[i].pc = "generate"
          /\ tasks[i].numTokens < MAX_NEW_TOKENS
          /\ \E t \in (IF tasks[i].startTime = <<>> THEN {tasks[i].now}
                       ELSE tasks[i].now..Min(tasks[i].now + 1, MaxClock)),
                out \in Outputs \ {""} :
                LET st == IF tasks[i].startTime = <<>> THEN t ELSE tasks[i].startTime[1]
                    k  == tasks[i].numTokens
                IN  /\ tasks' = [tasks EXCEPT ![i].now = t, ![i].startTime = <<st>>,
                                              ![i].numTokens = k + 1]
                    /\ toMain' = Append(toMain, EvUpdate(out, CallbackTps(k, st, t), k + 1))
    /\ UNCHANGED <<processing, asr, trn, asrLoads, trnLoads, toWorker>>
    /\ UNCHANGED <<appVars, captureVars, client, webgpu, progressItems>>

\* The flag left as it is when generate() ends (a slip).
ProcessingLeftSet == TRUE

\* generate(), last statement: processing = false
ProcessingAfterComplete == FALSE

\* generate(): model.generate resolved; the text is decoded and posted.
GenDone ==
    /\ Len(toMain) < MaxOutbox
    /\ \E i \in 1..Len(tasks) :
          /\ tasks[i].fn = "generate" /\ tasks[i].pc = "generate"
          /\ tasks' = RemoveAt(tasks, i)
    /\ \E out \in Outputs : toMain' = Append(toMain, EvComplete(<<out>>))
    /\ processing' = ProcessingAfterComplete
    /\ UNCHANGED <<asr, trn, asrLoads, trnLoads, toWorker>>
    /\ UNCHANGED <<appVars, captureVars, client, webgpu, progressItems>>

\* generate(): getInstance, processor(audio) or model.generate rejected;
\* generate() has no try/catch, so it ends there with processing still set.
GenThrows ==
    /\ \E i \in 1..Len(tasks) :
          /\ tasks[i].fn = "generate"
          /\ \/ tasks[i].pc = "awaitInstance" /\ AnyRejected(asr, tasks[i].inst)
             \/ tasks[i].pc = "processor"
             \/ tasks[i].pc = "generate"
          /\ tasks' = RemoveAt(tasks, i)
    /\ UNCHANGED <<processing, asr, trn, asrLoads, trnLoads>>
    /\ UNCHANGED <<chanVars, appVars, captureVars, client, webgpu, progressItems>>

\* message listener, case 'load-translator': loadTranslator() up to its await.
RecvLoadTranslator ==
    /\ toWorker # <<>> /\ Head(toWorker).type = "load-translator"
    /\ Len(toMain) < MaxOutbox /\ Len(tasks) < MaxTasks
    /\ LET g == GetInstance(trn, trnLoads, TRUE)
       IN  /\ trn' = g.pipe
           /\ trnLoads' = g.loads
           /\ tasks' = Append(tasks,
                  [fn |-> "loadTranslator", pc |-> "awaitInstance", inst |-> g.inst])
    /\ toWorker' = Tail(toWorker)
    /\ toMain' = Append(toMain, EvLoadingTranslator)
    /\ UNCHANGED <<processing, asr, asrLoads>>
    /\ UNCHANGED <<appVars, captureVars, client, webgpu, progressItems>>

\* loadTranslator(): getInstance resolved.
LoadTranslatorDone ==
    /\ \E i \in 1..Len(tasks) :
          /\ tasks[i].fn = "loadTranslator"
          /\ AllResolved(trn, tasks[i].inst)
          /\ tasks' = RemoveAt(tasks, i)
    /\ Len(toMain) < MaxOutbox
    /\ toMain' = Append(toMain, EvTranslatorReady)
    /\ UNCHANGED <<processing, asr, trn, asrLoads, trnLoads, toWorker>>
    /\ UNCHANGED <<appVars, captureVars, client, webgpu, progressItems>>

\* loadTranslator(): getInstance rejected; loadTranslator() has no try/catch.
LoadTranslatorThrows ==
    /\ \E i \in 1..Len(tasks) :
          /\ tasks[i].fn = "loadTranslator"
          /\ AnyRejected(trn, tasks[i].inst)
          /\ tasks' = RemoveAt(tasks, i)
    /\ UNCHANGED <<processing, asr, trn, asrLoads, trnLoads>>
    /\ UNCHANGED <<chanVars, appVars, captureVars, client, webgpu, progressItems>>

\* translate() marking the worker busy as generate() does (a slip).
TranslateSharesGate(busy) == TRUE

\* translate() has no `if (processing) return; processing = true`: the flag
\* is what it was.
TranslateKeepsFlag(busy) == busy

\* message listener, case 'translate': translate() up to its first await.
RecvTranslate ==
    /\ toWorker # <<>> /\ Head(toWorker).type = "translate"
    /\ Len(tasks) < MaxTasks
    /\ LET g == GetInstance(trn, trnLoads, FALSE)
       IN  /\ trn' = g.pipe
           /\ trnLoads' = g.loads
           /\ tasks' = Append(tasks,
                  [fn |-> "translate", pc |-> "awaitInstance", inst |-> g.inst,
                   text |-> Head(toWorker).data.text,
                   targetLanguage |-> Head(toWorker).data.targetLanguage])
    /\ toWorker' = Tail(toWorker)
    /\ processing' = TranslateKeepsFlag(processing)
    /\ UNCHANGED <<asr, asrLoads, toMain>>
    /\ UNCHANGED <<appVars, captureVars, client, webgpu, progressItems>>

\* langMap[targetLanguage]: undefined (<<>>) for a code the table lacks.
LangMapGet(code) == IF code \in DOMAIN langMap THEN <<langMap[code]>> ELSE <<>>

\* langMap[targetLanguage] with no fallback (a slip): undefined is passed on.
TgtLangNoFallback(code) ==
    IF LangMapGet(code) = <<>> THEN "undefined" ELSE LangMapGet(code)[1]

\* const tgtLang = langMap[targetLanguage] || 'ita_Latn'
TgtLang(code) ==
    IF LangMapGet(code) = <<>> THEN "ita_Latn" ELSE LangMapGet(code)[1]

\* translate(): getInstance resolved; the tag is resolved, the text is
\* tokenized, model.generate called.
TranslateInstanceReady ==
    /\ \E i \in 1..Len(tasks) :
          /\ tasks[i].fn = "translate" /\ tasks[i].pc = "awaitInstance"
          /\ AllResolved(trn, tasks[i].inst)
          /\ tasks' = [tasks EXCEPT ![i] =
                          [fn |-> "translate", pc |-> "generate", inst |-> tasks[i].inst,
                           text |-> tasks[i].text,
                           targetLanguage |-> tasks[i].targetLanguage,
                           tgtLang |-> TgtLang(tasks[i].targetLanguage)]]
    /\ UNCHANGED <<processing, asr, trn, asrLoads, trnLoads>>
    /\ UNCHANGED <<chanVars, appVars, captureVars, client, webgpu, progressItems>>

\* translate(): model.generate resolved; decoded[0] is posted.
TranslateDone ==
    /\ \E i \in 1..Len(tasks) :
          /\ tasks[i].fn = "translate" /\ tasks[i].pc = "generate"
          /\ tasks' = RemoveAt(tasks, i)
    /\ Len(toMain) < MaxOutbox
    /\ \E out \in Translations : toMain' = Append(toMain, EvTranslationComplete(out))
    /\ UNCHANGED <<processing, asr, trn, asrLoads, trnLoads, toWorker>>
    /\ UNCHANGED <<appVars, captureVars, client, webgpu, progressItems>>

\* translate() without its try/catch (a slip): a throw posts nothing.
Uncaught(ev) == <<>>

\* translate(), catch ( error ): the event is posted.
Caught(ev) == <<ev>>

\* translate(): anything in the try block threw; the catch posts the sentinel.
TranslateCatch ==
    /\ \E i \in 1..Len(tasks) :
          /\ tasks[i].fn = "translate"
          /\ \/ tasks[i].pc = "awaitInstance" /\ AnyRejected(trn, tasks[i].inst)
             \/ tasks[i].pc = "awaitInstance" /\ AllResolved(trn, tasks[i].inst)
             \/ tasks[i].pc = "generate"
          /\ tasks' = RemoveAt(tasks, i)
    /\ Len(toMain) < MaxOutbox
    /\ toMain' = toMain \o Caught(EvTranslationComplete("Translation error"))
    /\ UNCHANGED <<processing, asr, trn, asrLoads, trnLoads, toWorker>>
    /\ UNCHANGED <<appVars, captureVars, client, webgpu, progressItems>>

WorkerNext ==
    \/ AsrResolved \/ AsrRejected \/ TrnResolved \/ TrnRejected
    \/ AsrProgress \/ TrnProgress
    \/ RecvLoad \/ LoadInstanceReady \/ LoadWarmupDone \/ LoadThrows
    \/ RecvGenerate \/ GenInstanceReady \/ GenProcessorDone \/ GenCallback
    \/ GenDone \/ GenThrows
    \/ RecvLoadTranslator \/ LoadTranslatorDone \/ LoadTranslatorThrows
    \/ RecvTranslate \/ TranslateInstanceReady \/ TranslateDone \/ TranslateCatch

\* --------------------------------------------------------------- controller
RECURSIVE SumSeq(_)
SumSeq(s) == IF s = <<>> THEN 0 ELSE Head(s) + SumSeq(Tail(s))

\* new Blob( this.chunks ) read and decoded: getChannelData( 0 ) of the decoded
\* buffer, one value per sample (the i-th sample captured has the value i).
Decode(blobSamples) == [i \in 1..blobSamples |-> i]

\* audio.slice( 0, MAX_SAMPLES ): keeps the head (a slip for the tail).
WindowHead(audio) ==
    IF Len(audio) > MAX_SAMPLES THEN SubSeq(audio, 1, MAX_SAMPLES) ELSE audio

\* if ( audio.length > MAX_SAMPLES ) audio = audio.slice( -MAX_SAMPLES );
Window(audio) ==
    IF Len(audio) > MAX_SAMPLES
    THEN SubSeq(audio, Len(audio) - MAX_SAMPLES + 1, Len(audio))
    ELSE audio

\* Array.isArray( output ) ? output.join( '' ) : output || ''
RECURSIVE Join(_)
Join(out) == IF out = <<>> THEN "" ELSE Head(out) \o Join(Tail(out))

\* !this.text || this.text.trim() === ''
IsBlank(t) == t = "" \/ t = " "

\* The capture source as the pair of this.recorder's state and the events it
\* has queued.  stop() of an active recorder queues its last dataavailable
\* and then stop; start() of an inactive one queues start; requestData() of
\* an active one queues a dataavailable.  On a null recorder (?.) nothing is
\* called; a call the state does not allow throws and changes nothing.
Capture == [r |-> recorder, q |-> recEvents]
RecorderStop(c) ==
    IF c.r = "recording"
    THEN [r |-> "inactive", q |-> c.q \o <<"dataavailable", "stop">>]
    ELSE c
RecorderStart(c) ==
    IF c.r = "inactive" THEN [r |-> "recording", q |-> Append(c.q, "start")] ELSE c
RecorderRequestData(c) ==
    IF c.r = "recording" THEN [r |-> c.r, q |-> Append(c.q, "dataavailable")] ELSE c

SetCapture(c) ==
    /\ Len(c.q) <= MaxRecEvents
    /\ recorder' = c.r
    /\ recEvents' = c.q

\* The guard of processAudioChunks: it returns early unless this holds.
MayProcess(rec, recFlag, busy, st) ==
    rec # "null" /\ recFlag /\ ~busy /\ st = "ready"

\* translateText() up to its await: a blank transcript clears the remote
\* translation, any other starts a fetch for it.
TranslateText(txt) ==
    IF IsBlank(txt)
    THEN /\ translatedText' = ""
         /\ UNCHANGED fetches
    ELSE /\ Len(fetches) < MaxFetches
         /\ fetches' = Append(fetches, txt)
         /\ UNCHANGED translatedText

\* translateTextLocal(): a blank transcript clears the local translation, any
\* other posts a translate request.
TranslateTextLocal(txt, target) ==
    IF IsBlank(txt)
    THEN /\ localTranslatedText' = ""
         /\ UNCHANGED toWorker
    ELSE /\ Len(toWorker) < MaxInbox
         /\ toWorker' = Append(toWorker, MsgTranslate(txt, language, target))
         /\ UNCHANGED localTranslatedText

\* new Map(): no file has an entry.
EmptyLedger == [f \in {} |-> 0]

AppInit ==
    /\ status = "null"
    /\ language = "en"
    /\ translationLanguage = "en"
    /\ localTranslationLanguage = "en"
    /\ text = ""
    /\ tps = <<>>
    /\ isProcessing = FALSE
    /\ recording = FALSE
    /\ chunks = <<>>
    /\ translatorLoaded = FALSE
    /\ translatedText = ""
    /\ localTranslatedText = ""
    /\ translatorButtonDisabled = FALSE
    /\ fetches = <<>>
    /\ progressItems = EmptyLedger
    /\ recorder = "null"
    /\ recEvents = <<>>
    /\ reads = <<>>
    /\ timers = 0

\* initialize() without its WebGPU test (a slip): everything is always set up.
InitializeAlways(available) == TRUE

\* initialize(): if ( !IS_WEBGPU_AVAILABLE ) { showWebGPUError(); return; }
\* setupEventListeners, setupWorker and setupMediaRecorder run - the button
\* listeners, the worker and the getUserMedia request exist - only past it.
Initialize(available) == available

\* setupMediaRecorder: getUserMedia resolved, the recorder and its handlers exist.
GetUserMediaResolved ==
    /\ Initialize(webgpu)
    /\ recorder = "null"
    /\ recorder' = "inactive"
    /\ UNCHANGED <<appVars, recEvents, reads, timers, client, webgpu, progressItems, workerVars, chanVars>>

\* loadButton click (the button is shown while status is null).
ClickLoad ==
    /\ Initialize(webgpu)
    /\ status = "null"
    /\ Len(toWorker) < MaxInbox
    /\ toWorker' = Append(toWorker, MsgLoad)
    /\ status' = "loading"
    /\ UNCHANGED <<language, translationLanguage, localTranslationLanguage, text, tps, isProcessing, recording, chunks, translatorLoaded,
                   translatedText, localTranslatedText, translatorButtonDisabled, fetches>>
    /\ UNCHANGED <<captureVars, client, webgpu, progressItems, workerVars, toMain>>

\* loadTranslatorButton click.
ClickLoadTranslator ==
    /\ Initialize(webgpu)
    /\ ~translatorButtonDisabled
    /\ Len(toWorker) < MaxInbox
    /\ toWorker' = Append(toWorker, MsgLoadTranslator)
    /\ translatorButtonDisabled' = TRUE
    /\ UNCHANGED <<status, language, translationLanguage, localTranslationLanguage, text, tps, isProcessing, recording, chunks,
                   translatorLoaded, translatedText, localTranslatedText, fetches>>
    /\ UNCHANGED <<captureVars, client, webgpu, progressItems, workerVars, toMain>>

\* resetButton click: recorder?.stop(); recorder?.start( 1000 ).
ClickReset ==
    /\ Initialize(webgpu)
    /\ recorder # "null"
    /\ SetCapture(RecorderStart(RecorderStop(Capture)))
    /\ UNCHANGED <<appVars, reads, timers, client, webgpu, progressItems, workerVars, chanVars>>

\* The recognition language selector's callback.  On an inactive recorder
\* stop() returns at once in current browsers; where it throws instead, the
\* callback ends before anything changed (a stuttering step).
ChangeLanguage ==
    /\ \E lang \in Languages \ {language} : language' = lang
    /\ SetCapture(RecorderStart(RecorderStop(Capture)))
    /\ UNCHANGED <<status, translationLanguage, localTranslationLanguage, text, tps,
                   isProcessing, recording, chunks, translatorLoaded,
                   translatedText, localTranslatedText, translatorButtonDisabled, fetches>>
    /\ UNCHANGED <<reads, timers, client, webgpu, progressItems, workerVars, chanVars>>

\* The remote translation language selector's callback.
ChangeTranslationLanguage ==
    /\ \E lang \in Languages \ {translationLanguage} : translationLanguage' = lang
    /\ TranslateText(text)
    /\ UNCHANGED <<status, language, localTranslationLanguage, text, tps, isProcessing,
                   recording, chunks, translatorLoaded, localTranslatedText,
                   translatorButtonDisabled>>
    /\ UNCHANGED <<captureVars, client, webgpu, progressItems, workerVars, chanVars>>

\* The selector's callback calling translateTextLocal() whatever the
\* translator's state (a slip).
SelectorLocalAlways(loaded) == TRUE

\* The local translation language selector's callback: if ( this.translatorLoaded )
SelectorLocalWanted(loaded) == loaded

\* The local translation language selector's callback.
ChangeLocalTranslationLanguage ==
    /\ \E lang \in (TargetCodes \cup {"en"}) \ {localTranslationLanguage} :
          /\ localTranslationLanguage' = lang
          /\ IF SelectorLocalWanted(translatorLoaded)
             THEN TranslateTextLocal(text, lang)
             ELSE UNCHANGED <<localTranslatedText, toWorker>>
    /\ UNCHANGED <<status, language, translationLanguage, text, tps, isProcessing,
                   recording, chunks, translatorLoaded, translatedText,
                   translatorButtonDisabled, fetches>>
    /\ UNCHANGED <<captureVars, client, webgpu, progressItems, workerVars, toMain>>

\* recorder.start( 1000 ): a second of audio is ready.
TimesliceFlush ==
    /\ recorder = "recording"
    /\ SetCapture(RecorderRequestData(Capture))
    /\ UNCHANGED <<appVars, reads, timers, client, webgpu, progressItems, workerVars, chanVars>>

\* recorder.onstart
RecOnStart ==
    /\ recEvents # <<>> /\ Head(recEvents) = "start"
    /\ recEvents' = Tail(recEvents)
    /\ recording' = TRUE
    /\ chunks' = <<>>
    /\ UNCHANGED <<status, language, translationLanguage, localTranslationLanguage, text, tps, isProcessing, translatorLoaded,
                   translatedText, localTranslatedText, translatorButtonDisabled, fetches>>
    /\ UNCHANGED <<recorder, reads, timers, client, webgpu, progressItems, workerVars, chanVars>>

\* recorder.onstop
RecOnStop ==
    /\ recEvents # <<>> /\ Head(recEvents) = "stop"
    /\ recEvents' = Tail(recEvents)
    /\ recording' = FALSE
    /\ UNCHANGED <<status, language, translationLanguage, localTranslationLanguage, text, tps, isProcessing, chunks, translatorLoaded,
                   translatedText, localTranslatedText, translatorButtonDisabled, fetches>>
    /\ UNCHANGED <<recorder, reads, timers, client, webgpu, progressItems, workerVars, chanVars>>

\* recorder.ondataavailable with e.data.size > 0: the blob is kept and
\* processAudioChunks runs; past its guard it starts reading the blobs so far.
RecOnData ==
    /\ recEvents # <<>> /\ Head(recEvents) = "dataavailable"
    /\ recEvents' = Tail(recEvents)
    /\ Len(chunks) < MaxChunks
    /\ chunks' = Append(chunks, WHISPER_SAMPLING_RATE)
    /\ IF MayProcess(recorder, recording, isProcessing, status)
       THEN /\ Len(reads) < MaxReads
            /\ reads' = Append(reads, SumSeq(chunks'))
       ELSE UNCHANGED reads
    /\ UNCHANGED <<status, language, translationLanguage, localTranslationLanguage, text, tps, isProcessing, recording, translatorLoaded,
                   translatedText, localTranslatedText, translatorButtonDisabled, fetches>>
    /\ UNCHANGED <<recorder, timers, client, webgpu, progressItems, workerVars, chanVars>>

\* The else branch without its setTimeout (a slip): nothing is scheduled.
NoRetry(pending) == pending

\* setTimeout( () => { this.recorder?.requestData(); }, 25 ): one more timer.
RetryLater(pending) == pending + 1

\* recorder.ondataavailable with e.data.size = 0: requestData is retried later.
RecOnEmptyData ==
    /\ recEvents # <<>> /\ Head(recEvents) = "dataavailable"
    /\ recEvents' = Tail(recEvents)
    /\ timers < MaxTimers
    /\ timers' = RetryLater(timers)
    /\ UNCHANGED <<appVars, recorder, reads, client, webgpu, progressItems, workerVars, chanVars>>

\* The 25 ms timer: this.recorder?.requestData().
TimerFires ==
    /\ timers > 0
    /\ timers' = timers - 1
    /\ SetCapture(RecorderRequestData(Capture))
    /\ UNCHANGED <<appVars, reads, client, webgpu, progressItems, workerVars, chanVars>>

\* fileReader.onloadend, after decodeAudioData: the window is posted.
ReadDecoded ==
    /\ \E i \in 1..Len(reads) :
          /\ toWorker' = Append(toWorker, MsgGenerate(Window(Decode(reads[i])), language))
          /\ reads' = RemoveAt(reads, i)
    /\ Len(toWorker) < MaxInbox
    /\ UNCHANGED <<appVars, recorder, recEvents, timers, client, webgpu, progressItems, workerVars, toMain>>

\* decodeAudioData rejected (or the read failed): onloadend ends, nothing is posted.
ReadFailed ==
    /\ \E i \in 1..Len(reads) : reads' = RemoveAt(reads, i)
    /\ UNCHANGED <<appVars, recorder, recEvents, timers, client, webgpu, progressItems, workerVars, chanVars>>

\* onWorkerMessage, case 'loading'
OnLoading ==
    /\ toMain # <<>> /\ Head(toMain).status = "loading"
    /\ toMain' = Tail(toMain)
    /\ status' = "loading"
    /\ UNCHANGED <<language, translationLanguage, localTranslationLanguage, text, tps, isProcessing, recording, chunks, translatorLoaded,
                   translatedText, localTranslatedText, translatorButtonDisabled, fetches>>
    /\ UNCHANGED <<captureVars, client, webgpu, progressItems, workerVars, toWorker>>

\* this.progressItems.set( data.file, new Progress( { file, percentage:
\* data.progress || 0, total } ) ): the entry is created, or replaced.
LedgerSet(ledger, file, pct) ==
    [f \in DOMAIN ledger \cup {file} |->
        IF f = file THEN [percentage |-> pct, progress |-> <<>>] ELSE ledger[f]]

\* progress.update( { progress: data.progress, total } ) on the entry of the file.
LedgerUpdate(ledger, file, pct) == [ledger EXCEPT ![file].progress = <<pct>>]

\* progress.remove() without progressItems.delete (a slip): the entry stays.
LedgerKeep(ledger, file) == ledger

\* this.progressItems.delete( data.file )
LedgerDelete(ledger, file) == [f \in DOMAIN ledger \ {file} |-> ledger[f]]

\* onWorkerMessage, case 'initiate': if ( data.file ) an entry is set.
OnInitiate ==
    /\ toMain # <<>> /\ Head(toMain).status = "initiate"
    /\ toMain' = Tail(toMain)
    /\ progressItems' =
          IF Head(toMain).file # ""
          THEN LedgerSet(progressItems, Head(toMain).file, Head(toMain).progress)
          ELSE progressItems
    /\ UNCHANGED <<appVars, captureVars, client, webgpu, workerVars, toWorker>>

\* onWorkerMessage, case 'progress': if ( data.file ) and the file has an
\* entry, the entry is updated.
OnProgress ==
    /\ toMain # <<>> /\ Head(toMain).status = "progress"
    /\ toMain' = Tail(toMain)
    /\ progressItems' =
          IF Head(toMain).file # "" /\ Head(toMain).file \in DOMAIN progressItems
          THEN LedgerUpdate(progressItems, Head(toMain).file, Head(toMain).progress)
          ELSE progressItems
    /\ UNCHANGED <<appVars, captureVars, client, webgpu, workerVars, toWorker>>

\* onWorkerMessage, case 'done': if ( data.file ) and the file has an entry,
\* the entry is removed.
OnDone ==
    /\ toMain # <<>> /\ Head(toMain).status = "done"
    /\ toMain' = Tail(toMain)
    /\ progressItems' =
          IF Head(toMain).file # "" /\ Head(toMain).file \in DOMAIN progressItems
          THEN LedgerDelete(progressItems, Head(toMain).file)
          ELSE progressItems
    /\ UNCHANGED <<appVars, captureVars, client, webgpu, workerVars, toWorker>>

\* onWorkerMessage, case 'ready'
OnReady ==
    /\ toMain # <<>> /\ Head(toMain).status = "ready"
    /\ toMain' = Tail(toMain)
    /\ status' = "ready"
    /\ SetCapture(RecorderStart(Capture))
    /\ UNCHANGED <<language, translationLanguage, localTranslationLanguage, text, tps, isProcessing, recording, chunks, translatorLoaded,
                   translatedText, localTranslatedText, translatorButtonDisabled, fetches>>
    /\ UNCHANGED <<reads, timers, client, webgpu, progressItems, workerVars, toWorker>>

\* onWorkerMessage, case 'start'
OnStart ==
    /\ toMain # <<>> /\ Head(toMain).status = "start"
    /\ toMain' = Tail(toMain)
    /\ isProcessing' = TRUE
    /\ SetCapture(RecorderRequestData(Capture))
    /\ UNCHANGED <<status, language, translationLanguage, localTranslationLanguage, text, tps, recording, chunks, translatorLoaded,
                   translatedText, localTranslatedText, translatorButtonDisabled, fetches>>
    /\ UNCHANGED <<reads, timers, client, webgpu, progressItems, workerVars, toWorker>>

\* onWorkerMessage, case 'update'
OnUpdate ==
    /\ toMain # <<>> /\ Head(toMain).status = "update"
    /\ toMain' = Tail(toMain)
    /\ tps' = IF Head(toMain).tps # <<>> THEN Head(toMain).tps ELSE tps
    /\ UNCHANGED <<status, language, translationLanguage, localTranslationLanguage, text, isProcessing, recording, chunks, translatorLoaded,
                   translatedText, localTranslatedText, translatorButtonDisabled, fetches>>
    /\ UNCHANGED <<captureVars, client, webgpu, progressItems, workerVars, toWorker>>

\* if ( true ) this.translateTextLocal(): a slip for the translatorLoaded test.
LocalPathAlways(loaded) == TRUE

\* onWorkerMessage, case 'complete': if ( this.translatorLoaded )
LocalPathWanted(loaded) == loaded

\* this.text += ... (a slip): the new text is appended to the transcript.
TranscriptAppended(prev, output) == prev \o Join(output)

\* this.text = Array.isArray( data.output ) ? data.output.join( '' ) : data.output || ''
Transcript(prev, output) == Join(output)

\* onWorkerMessage, case 'complete'
OnComplete ==
    /\ toMain # <<>> /\ Head(toMain).status = "complete"
    /\ toMain' = Tail(toMain)
    /\ isProcessing' = FALSE
    /\ text' = Transcript(text, Head(toMain).output)
    /\ TranslateText(text')
    /\ IF LocalPathWanted(translatorLoaded)
       THEN TranslateTextLocal(text', localTranslationLanguage)
       ELSE UNCHANGED <<localTranslatedText, toWorker>>
    /\ UNCHANGED <<status, language, translationLanguage, localTranslationLanguage, tps, recording, chunks, translatorLoaded,
                   translatorButtonDisabled>>
    /\ UNCHANGED <<captureVars, client, webgpu, progressItems, workerVars>>

\* onWorkerMessage, case 'loading-translator'
OnLoadingTranslator ==
    /\ toMain # <<>> /\ Head(toMain).status = "loading-translator"
    /\ toMain' = Tail(toMain)
    /\ UNCHANGED <<appVars, captureVars, client, webgpu, progressItems, workerVars, toWorker>>

\* onWorkerMessage, case 'translator-ready'
OnTranslatorReady ==
    /\ toMain # <<>> /\ Head(toMain).status = "translator-ready"
    /\ toMain' = Tail(toMain)
    /\ translatorLoaded' = TRUE
    /\ IF text # ""
       THEN TranslateTextLocal(text, localTranslationLanguage)
       ELSE UNCHANGED <<localTranslatedText, toWorker>>
    /\ UNCHANGED <<status, language, translationLanguage, localTranslationLanguage, text, tps, isProcessing, recording, chunks,
                   translatedText, translatorButtonDisabled, fetches>>
    /\ UNCHANGED <<captureVars, client, webgpu, progressItems, workerVars>>

\* onWorkerMessage, case 'translation-complete'
OnTranslationComplete ==
    /\ toMain # <<>> /\ Head(toMain).status = "translation-complete"
    /\ toMain' = Tail(toMain)
    /\ localTranslatedText' = Head(toMain).output
    /\ UNCHANGED <<status, language, translationLanguage, localTranslationLanguage, text, tps, isProcessing, recording, chunks,
                   translatorLoaded, translatedText, translatorButtonDisabled, fetches>>
    /\ UNCHANGED <<captureVars, client, webgpu, progressItems, workerVars, toWorker>>

\* translateText() without its try/catch (a slip): a throw leaves the text.
RemoteResultUncaught(outcome, translation, cur) ==
    CASE outcome = "ok" -> translation
      [] outcome = "empty" -> "Translation failed"
      [] OTHER -> cur

\* translateText(): the text it sets for a response with data[0], for one
\* without, and in its catch when fetch, json() or the mapping threw.
RemoteResult(outcome, translation, cur) ==
    CASE outcome = "ok" -> translation
      [] outcome = "empty" -> "Translation failed"
      [] OTHER -> "Translation error"

\* translateText() after its awaits: the response gives the translation, no
\* usable data[0] ('Translation failed'), or fetch / json() threw.
FetchSettled ==
    /\ \E i \in 1..Len(fetches) :
          /\ fetches' = RemoveAt(fetches, i)
          /\ \E outcome \in {"ok", "empty", "threw"}, translation \in Translations :
                translatedText' = RemoteResult(outcome, translation, translatedText)
    /\ UNCHANGED <<status, language, translationLanguage, localTranslationLanguage, text, tps, isProcessing, recording, chunks,
                   translatorLoaded, localTranslatedText, translatorButtonDisabled>>
    /\ UNCHANGED <<captureVars, client, webgpu, progressItems, workerVars, chanVars>>

\* A page with WebGPU: initialize() has set everything up.
Init ==
    /\ AppInit /\ WorkerInit /\ client = "app" /\ webgpu = TRUE
    /\ toWorker = <<>> /\ toMain = <<>>

\* The recognition loop: the model is loaded, audio is captured, windows are
\* dispatched and transcribed, the transcript is handed to the remote
\* translation.  The user neither loads the translator nor touches the
\* language selectors or the reset button.
Next ==
    \/ GetUserMediaResolved \/ ClickLoad \/ TimesliceFlush
    \/ RecOnStart \/ RecOnData \/ RecOnEmptyData \/ TimerFires
    \/ ReadDecoded \/ ReadFailed
    \/ OnLoading \/ OnReady \/ OnStart \/ OnUpdate \/ OnComplete
    \/ FetchSettled
    \/ AsrResolved \/ AsrRejected
    \/ RecvLoad \/ LoadInstanceReady \/ LoadWarmupDone \/ LoadThrows
    \/ RecvGenerate \/ GenInstanceReady \/ GenProcessorDone \/ GenCallback
    \/ GenDone \/ GenThrows
Spec == Init /\ [][Next]_vars

\* The recognition loop on its success path, with a user who also changes the
\* recognition language.
NextLang ==
    \/ GetUserMediaResolved \/ ClickLoad \/ ChangeLanguage \/ TimesliceFlush
    \/ RecOnStart \/ RecOnStop \/ RecOnData \/ ReadDecoded
    \/ OnLoading \/ OnReady \/ OnStart \/ OnUpdate \/ OnComplete \/ FetchSettled
    \/ AsrResolved \/ RecvLoad \/ LoadInstanceReady \/ LoadWarmupDone
    \/ RecvGenerate \/ GenInstanceReady \/ GenProcessorDone \/ GenCallback \/ GenDone
SpecLang == Init /\ [][NextLang]_vars

\* The controller on its own, on a page where getUserMedia was refused or is
\* missing (main.ts:297-300: recorder stays null): the worker's side of the
\* channel is a peer that may send any event at any time and takes the
\* requests posted to it.
PeerEvents ==
    {EvLoading("Loading model..."), EvReady, EvStart, EvComplete(<<"">>),
     EvComplete(<<"hello">>), EvUpdate("hello", <<>>, 1),
     EvUpdate("hello", <<TokensPerSecond(2, 1)>>, 2),
     EvLoadingTranslator, EvTranslatorReady,
     EvTranslationComplete("bonjour"), EvTranslationComplete("Translation error")}

PeerSends ==
    /\ Len(toMain) < MaxOutbox
    /\ \E e \in PeerEvents : toMain' = Append(toMain, e)
    /\ UNCHANGED <<appVars, captureVars, client, webgpu, progressItems, workerVars, toWorker>>

PeerTakes ==
    /\ toWorker # <<>>
    /\ toWorker' = Tail(toWorker)
    /\ UNCHANGED <<appVars, captureVars, client, webgpu, progressItems, workerVars, toMain>>

NextController ==
    \/ ClickLoad \/ ClickLoadTranslator
    \/ OnLoading \/ OnReady \/ OnStart \/ OnUpdate \/ OnComplete
    \/ OnLoadingTranslator \/ OnTranslatorReady \/ OnTranslationComplete
    \/ FetchSettled
    \/ PeerSends \/ PeerTakes
SpecController == Init /\ [][NextController]_vars

\* The recognition loop on its success path together with the local
\* translator: both models are loaded, windows are transcribed and every
\* transcript is handed to both translation paths.
NextTranslate ==
    \/ GetUserMediaResolved \/ ClickLoad \/ ClickLoadTranslator
    \/ TimesliceFlush \/ RecOnStart \/ RecOnData \/ ReadDecoded
    \/ OnLoading \/ OnReady \/ OnStart \/ OnComplete
    \/ OnLoadingTranslator \/ OnTranslatorReady \/ OnTranslationComplete
    \/ FetchSettled
    \/ AsrResolved \/ TrnResolved
    \/ RecvLoad \/ LoadInstanceReady \/ LoadWarmupDone
    \/ RecvGenerate \/ GenInstanceReady \/ GenProcessorDone \/ GenDone
    \/ RecvLoadTranslator \/ LoadTranslatorDone
    \/ RecvTranslate \/ TranslateInstanceReady \/ TranslateDone
SpecTranslate == Init /\ [][NextTranslate]_vars

\* The controller with its capture running and a user at the two translation
\* language selectors; the peer sends what gives it a transcript and a
\* translator.
SelectPeerEvents ==
    {EvReady, EvComplete(<<"">>), EvComplete(<<"hello">>), EvTranslatorReady,
     EvTranslationComplete("bonjour")}

SelectPeerSends ==
    /\ Len(toMain) < MaxOutbox
    /\ \E e \in SelectPeerEvents : toMain' = Append(toMain, e)
    /\ UNCHANGED <<appVars, captureVars, client, webgpu, progressItems, workerVars, toWorker>>

NextSelect ==
    \/ ChangeTranslationLanguage \/ ChangeLocalTranslationLanguage
    \/ GetUserMediaResolved \/ RecOnStart
    \/ OnReady \/ OnComplete \/ OnTranslatorReady \/ OnTranslationComplete
    \/ FetchSettled
    \/ SelectPeerSends \/ PeerTakes
SpecSelect == Init /\ [][NextSelect]_vars

\* The page from its construction, with or without WebGPU, and a user at every
\* control: the two buttons, the reset button and the three selectors.  The
\* worker, where initialize() created one, is a peer that reports the model
\* loading and ready.
InitPage ==
    /\ AppInit /\ WorkerInit /\ client = "app" /\ webgpu \in BOOLEAN
    /\ toWorker = <<>> /\ toMain = <<>>

PagePeerEvents ==
    {EvLoading("Loading model..."), EvReady}

PagePeerSends ==
    /\ Initialize(webgpu)
    /\ Len(toMain) < MaxOutbox
    /\ \E e \in PagePeerEvents : toMain' = Append(toMain, e)
    /\ UNCHANGED <<appVars, captureVars, client, webgpu, progressItems, workerVars, toWorker>>

NextPage ==
    \/ ClickLoad \/ ClickLoadTranslator \/ ClickReset
    \/ ChangeLanguage \/ ChangeTranslationLanguage \/ ChangeLocalTranslationLanguage
    \/ GetUserMediaResolved \/ RecOnStart \/ RecOnStop \/ RecOnData \/ ReadDecoded
    \/ OnLoading \/ OnReady
    \/ PagePeerSends \/ PeerTakes
SpecPage == InitPage /\ [][NextPage]_vars

\* The controller while the model loads: the worker is a peer that forwards
\* the runtime's progress records, for any file or none and in any order, and
\* reports loading and ready.
LedgerPeerEvents ==
    {EvFile(k, f, p) : k \in {"initiate", "progress", "done"},
                       f \in Files \cup {""}, p \in Percentages}
        \cup {EvLoading("Loading model..."), EvReady}

LedgerPeerSends ==
    /\ Len(toMain) < MaxOutbox
    /\ \E e \in LedgerPeerEvents : toMain' = Append(toMain, e)
    /\ UNCHANGED <<appVars, captureVars, client, webgpu, progressItems, workerVars, toWorker>>

NextLedger ==
    \/ ClickLoad \/ OnLoading \/ OnInitiate \/ OnProgress \/ OnDone \/ OnReady
    \/ LedgerPeerSends \/ PeerTakes
SpecLedger == Init /\ [][NextLedger]_vars

\* ------------------------------------------------- the worker on its own
\* The requests a client of one model session may send.
EnvRequests ==
    IF client = "recognition"
    THEN {MsgLoad, MsgGenerate(<<1>>, "en")}
    ELSE {MsgLoadTranslator} \cup {MsgTranslate("hello", "en", t) : t \in TargetCodes}

\* A client posts a request.
EnvPost ==
    /\ Len(toWorker) < MaxInbox
    /\ \E m \in EnvRequests : toWorker' = Append(toWorker, m)
    /\ UNCHANGED <<workerVars, toMain>>
    /\ UNCHANGED <<appVars, captureVars, client, webgpu, progressItems>>

\* The client takes the next event off the channel.
EnvTake ==
    /\ toMain # <<>>
    /\ toMain' = Tail(toMain)
    /\ UNCHANGED <<workerVars, toWorker>>
    /\ UNCHANGED <<appVars, captureVars, client, webgpu, progressItems>>

InitWorker ==
    /\ AppInit /\ WorkerInit
    /\ client \in {"recognition", "translation"}
    /\ webgpu = TRUE
    /\ toWorker = <<>> /\ toMain = <<>>
NextWorker == WorkerNext \/ EnvPost \/ EnvTake
SpecWorker == InitWorker /\ [][NextWorker]_vars

\* The worker and the controller's listener with what their scheduling
\* guarantees, on a page without a microphone: a client posts load and
\* generate requests as the capture loop would, and goes on posting as the
\* recorder goes on flushing.  The page's event loop runs
\* the handler of every worker event queued for it; the worker's listener
\* takes every request; the runtime settles the promises load() and
\* generate() await, so a call that can go on does; a fetch is answered or
\* fails.  Each of these happens if it is possible again and again.  Nothing
\* makes an inference fail and nothing keeps it from failing: GenThrows may
\* or may not be taken.
InitLive ==
    /\ AppInit /\ WorkerInit /\ client = "recognition" /\ webgpu = TRUE
    /\ toWorker = <<>> /\ toMain = <<>>

NextLive ==
    \/ EnvPost
    \/ OnLoading \/ OnReady \/ OnStart \/ OnUpdate \/ OnComplete \/ FetchSettled
    \/ AsrResolved \/ RecvLoad \/ LoadInstanceReady \/ LoadWarmupDone
    \/ RecvGenerate \/ GenInstanceReady \/ GenProcessorDone \/ GenCallback
    \/ GenDone \/ GenThrows

Fairness ==
    /\ WF_vars(EnvPost)
    /\ SF_vars(OnLoading \/ OnReady \/ OnStart \/ OnUpdate \/ OnComplete)
    /\ SF_vars(FetchSettled)
    /\ SF_vars(RecvLoad \/ RecvGenerate)
    /\ SF_vars(AsrResolved \/ LoadInstanceReady \/ LoadWarmupDone)
    /\ SF_vars(GenInstanceReady \/ GenProcessorDone \/ GenDone)
SpecLive == InitLive /\ [][NextLive]_vars /\ Fairness

\* ============================================================== properties
\* What one step puts on a channel (<<>> when it puts nothing).
Emitted == IF Len(toMain') > Len(toMain) THEN <<Last(toMain')>> ELSE <<>>
Posted == IF Len(toWorker') > Len(toWorker) THEN <<Last(toWorker')>> ELSE <<>>
EmittedIs(kind) == Emitted # <<>> /\ Emitted[1].status = kind
PostedIs(kind) == Posted # <<>> /\ Posted[1].type = kind

\* The step in which the worker's listener takes a request of this type.
Taken(kind) ==
    /\ toWorker # <<>> /\ Head(toWorker).type = kind
    /\ toWorker' = Tail(toWorker)

\* The generate() calls that have been accepted and have not ended.
GenerateTasks == {i \in 1..Len(tasks) : tasks[i].fn = "generate"}

\* C1: a generate request that reaches the worker while an accepted one has
\* not emitted complete is dropped: the step that takes it emits nothing and
\* leaves the whole worker state as it was (nothing is queued), so at most one
\* generate() call is ever running, and that call is the only source of start
\* and complete: start is emitted exactly by the step that closes the gate and
\* complete exactly by the step that opens it again.
C1_OverlappingGenerateDropped ==
    [][ /\ (Taken("generate") /\ processing) => UNCHANGED <<workerVars, toMain>>
        /\ Cardinality(GenerateTasks') <= 1
        /\ (GenerateTasks' # {}) => processing'
        /\ EmittedIs("start") <=> (~processing /\ processing')
        /\ EmittedIs("complete") <=> (processing /\ ~processing')
      ]_vars

\* C1 witness: a generate() call is running, its start is out and its complete
\* is not, and a second generate request is next in the worker's inbox.
C1_Witness ==
    /\ processing /\ Cardinality(GenerateTasks) = 1
    /\ \A i \in 1..Len(toMain) : toMain[i].status # "complete"
    /\ toWorker # <<>> /\ Head(toWorker).type = "generate"

\* C3: per session, however many getInstance calls are made and from whichever
\* of load, generate, loadTranslator and translate, from_pretrained is called
\* at most once per artifact - exactly once as soon as one caller exists - and
\* every caller holds the very promises the static fields hold.
C3_LoadedOncePerArtifact ==
    /\ \A a \in AsrArtifacts :
          /\ asrLoads[a] <= 1
          /\ asrLoads[a] = (IF asr[a].st = "null" THEN 0 ELSE 1)
    /\ \A a \in TrArtifacts :
          /\ trnLoads[a] <= 1
          /\ trnLoads[a] = (IF trn[a].st = "null" THEN 0 ELSE 1)
    /\ \A i \in 1..Len(tasks) :
          /\ tasks[i].fn \in {"load", "generate"} =>
                \A a \in AsrArtifacts :
                    asrLoads[a] = 1 /\ tasks[i].inst[a] = asr[a].id
          /\ tasks[i].fn \in {"loadTranslator", "translate"} =>
                \A a \in TrArtifacts :
                    trnLoads[a] = 1 /\ tasks[i].inst[a] = trn[a].id

\* C3 witness: two callers of one session wait on getInstance at the same time.
C3_Witness ==
    \E i, j \in 1..Len(tasks) :
        /\ i # j
        /\ tasks[i].pc = "awaitInstance" /\ tasks[j].pc = "awaitInstance"
        /\ tasks[i].fn # tasks[j].fn
        /\ tasks[i].inst = tasks[j].inst
        /\ \A a \in DOMAIN tasks[i].inst : tasks[i].inst[a] = 1

\* C6 (as stated): whenever a request's handling in the worker ends, that step
\* emits an event carrying its result or its failure.
C6_EveryEndEmits ==
    [][ Len(tasks') < Len(tasks) => Emitted # <<>> ]_vars

\* The rate an update would carry if the numerator were the number of tokens
\* emitted before it.
C10_RateOfCountBefore(k, elapsedMs) ==
    IF k = 0 THEN <<>> ELSE <<[num |-> k * 1000, den |-> elapsedMs]>>

\* The rate an update carries with the numerator k + 1, the token count the
\* same update reports.
C10_RateOfCountAfter(k, elapsedMs) ==
    IF k = 0 THEN <<>> ELSE <<[num |-> (k + 1) * 1000, den |-> elapsedMs]>>

\* The running generate() call's locals before and after a step.
C10_Before == tasks[CHOOSE i \in GenerateTasks : TRUE]
C10_After == tasks'[CHOOSE i \in GenerateTasks' : TRUE]

\* C10 (as stated): the first update of a transcription carries no rate, and
\* update k > 0 carries k / elapsedMs x 1000, k the tokens emitted before it.
C10_RateNumeratorIsCountBefore ==
    [][ EmittedIs("update") =>
          Emitted[1].tps =
              C10_RateOfCountBefore(C10_Before.numTokens,
                                    C10_After.now - C10_After.startTime[1]) ]_vars

\* C10 (amended): the first update of a transcription carries no rate, and
\* update k > 0 carries (k + 1) / elapsedMs x 1000: the numerator is the token
\* count after this update's token, the numTokens the same event reports.
C10_RateNumeratorIsCountAfter ==
    [][ EmittedIs("update") =>
          /\ Emitted[1].numTokens = C10_Before.numTokens + 1
          /\ Emitted[1].tps =
                C10_RateOfCountAfter(C10_Before.numTokens,
                                     C10_After.now - C10_After.startTime[1]) ]_vars

\* C10 witness: an update for k = 2 is on its way, carrying a rate.
C10_Witness ==
    /\ toMain # <<>> /\ Last(toMain).status = "update"
    /\ Last(toMain).numTokens = 3
    /\ Last(toMain).tps # <<>>

\* The generate requests the controller has posted and has not received
\* complete for: those still in the worker's inbox, the one the worker holds
\* in flight, and those whose complete is on its way.
RECURSIVE CountIf(_, _, _)
CountIf(q, field, kind) ==
    IF q = <<>> THEN 0
    ELSE (IF Head(q)[field] = kind THEN 1 ELSE 0) + CountIf(Tail(q), field, kind)
OutstandingGenerates ==
    CountIf(toWorker, "type", "generate")
        + (IF processing THEN 1 ELSE 0)
        + CountIf(toMain, "status", "complete")

\* C2 (as stated): whatever the interleaving of flushes, reads, decodes and
\* worker events, at most one generate request is outstanding.
C2_AtMostOneOutstanding == OutstandingGenerates <= 1

\* C4 (as stated, its safety core): while the worker's in-flight flag is set,
\* the accepted generate() call is still running, so that its complete can
\* still come and reset the flag.
C4_AcceptedStillRunning == processing => GenerateTasks # {}

\* The controller's processing flag after it has handled the events q, starting
\* from the flag busy; <<>> when some event comes out of turn (a start while
\* busy, an update or a complete while idle).
RECURSIVE InTurn(_, _)
InTurn(busy, q) ==
    IF q = <<>> THEN <<busy>>
    ELSE CASE Head(q).status = "start" ->
                IF busy THEN <<>> ELSE InTurn(TRUE, Tail(q))
           [] Head(q).status = "update" ->
                IF busy THEN InTurn(TRUE, Tail(q)) ELSE <<>>
           [] Head(q).status = "complete" ->
                IF busy THEN InTurn(FALSE, Tail(q)) ELSE <<>>
           [] OTHER -> InTurn(busy, Tail(q))

C9_WindowIsTail ==
    [][ PostedIs("generate") =>
          /\ Len(Posted[1].data.audio) <= MAX_SAMPLES
          /\ \E i \in 1..Len(reads) :
                /\ reads' = RemoveAt(reads, i)
                /\ LET decoded == [j \in 1..reads[i] |-> j]
                       n == Len(decoded)
                   IN  Posted[1].data.audio =
                           IF n > MAX_SAMPLES
                           THEN [j \in 1..MAX_SAMPLES |-> decoded[n - MAX_SAMPLES + j]]
                           ELSE decoded
      ]_vars

\* C9 witness: a request cut down to the last MAX_SAMPLES samples of a longer
\* recording is in the worker's inbox.
C9_Witness ==
    /\ toWorker # <<>> /\ Last(toWorker).type = "generate"
    /\ Last(toWorker).data.audio = <<2, 3>>
    /\ Len(chunks) = 3

\* recorder.stop() has been called and recorder.onstop has not run yet.
StopPending == \E i \in 1..Len(recEvents) : recEvents[i] = "stop"

\* C7 (as stated): from the stop() of a language change until the capture has
\* restarted, the controller dispatches nothing: it neither posts a generate
\* request nor starts reading blobs for one, the blob of the stop's own flush
\* included.
C7_NoDispatchWhileRestarting ==
    [][ StopPending => (~PostedIs("generate") /\ Len(reads') <= Len(reads)) ]_vars

\* The step in which the controller handles a complete event.
HandlesComplete ==
    /\ toMain # <<>> /\ Head(toMain).status = "complete"
    /\ toMain' = Tail(toMain)

\* C8: handling a complete event sets the processing flag to idle, replaces the
\* transcript by the event's text (its pieces joined), always runs the remote
\* translation path (a blank transcript clears the remote translation, any
\* other starts a fetch for it) and runs the local translation path (a blank
\* transcript clears the local translation, any other posts a translate
\* request for it) exactly when the translator is loaded at that moment.
C8_CompleteHandled ==
    [][ HandlesComplete =>
          LET t == Join(Head(toMain).output)
              blank == t = "" \/ t = " "
          IN  /\ isProcessing' = FALSE
              /\ text' = t
              /\ IF blank
                 THEN translatedText' = "" /\ fetches' = fetches
                 ELSE translatedText' = translatedText /\ fetches' = Append(fetches, t)
              /\ IF translatorLoaded
                 THEN IF blank
                      THEN localTranslatedText' = "" /\ Posted = <<>>
                      ELSE /\ localTranslatedText' = localTranslatedText
                           /\ PostedIs("translate")
                           /\ Posted[1].data.text = t
                 ELSE localTranslatedText' = localTranslatedText /\ Posted = <<>>
      ]_vars

\* C8 witness: with the translator loaded, a complete event has been handled:
\* its text is the transcript, the fetch for it is under way and the translate
\* request for it is posted.
C8_Witness ==
    /\ translatorLoaded /\ ~isProcessing
    /\ text = "hello"
    /\ fetches = <<"hello">>
    /\ toWorker # <<>> /\ Last(toWorker).type = "translate"
    /\ Last(toWorker).data.text = "hello"

\* The translate() calls that have not ended.
TranslateTasks == {i \in 1..Len(tasks) : tasks[i].fn = "translate"}

\* C11: for every target code, translate() resolves the model's language tag
\* to the table's entry when the code is in the table and to the one fallback
\* tag 'ita_Latn' when it is not; the tag is always one the table knows (the
\* fallback is the tag of "it"), never undefined, so an unmapped code is no
\* error.
C11_TagResolved ==
    \A i \in TranslateTasks :
        tasks[i].pc = "generate" =>
            /\ tasks[i].targetLanguage \in DOMAIN langMap =>
                  tasks[i].tgtLang = langMap[tasks[i].targetLanguage]
            /\ tasks[i].targetLanguage \notin DOMAIN langMap =>
                  tasks[i].tgtLang = "ita_Latn"
            /\ \E c \in DOMAIN langMap : tasks[i].tgtLang = langMap[c]

\* C11 witness: a request for a code the table lacks has had its tag resolved
\* and is generating.
C11_Witness ==
    \E i \in TranslateTasks :
        /\ tasks[i].pc = "generate"
        /\ tasks[i].targetLanguage = "ca"
        /\ tasks[i].tgtLang = langMap["it"]

\* C12: every translate request the worker takes starts one translate() call,
\* and a translate() call ends only in a step that emits one
\* translation-complete event: the translation on success, and the sentinel
\* 'Translation error' on a failure - always so when the call never got to
\* generating, as when the translation model failed to load.  No other step
\* emits that event.
C12_OneTranslationCompletePerRequest ==
    [][ /\ Taken("translate") =>
              Cardinality(TranslateTasks') = Cardinality(TranslateTasks) + 1
        /\ (Cardinality(TranslateTasks') < Cardinality(TranslateTasks))
              <=> EmittedIs("translation-complete")
        /\ EmittedIs("translation-complete") =>
              /\ Cardinality(TranslateTasks') = Cardinality(TranslateTasks) - 1
              /\ Len(toMain') = Len(toMain) + 1
              /\ Emitted[1].output \in Translations \cup {"Translation error"}
              /\ (\A i \in TranslateTasks : tasks[i].pc # "generate") =>
                    Emitted[1].output = "Translation error"
      ]_vars

\* C12 witness: the translation model failed to load and the sentinel is on
\* its way to the controller.
C12_Witness ==
    /\ \E a \in TrArtifacts : trn[a].st = "rejected"
    /\ TranslateTasks = {}
    /\ toMain # <<>> /\ Last(toMain) = EvTranslationComplete("Translation error")

\* A caller that waits on getInstance and holds a rejected promise.
HoldsFailure(t) ==
    /\ t.pc = "awaitInstance"
    /\ IF t.fn \in {"load", "generate"}
       THEN AnyRejected(asr, t.inst) ELSE AnyRejected(trn, t.inst)

\* C13: once the load of an artifact has failed, its static field keeps the
\* rejected promise for good: no later getInstance call starts a new load of
\* it, and no caller that holds the failure ever gets past its getInstance.
C13_FailedSessionStaysFailed ==
    [][ /\ \A a \in AsrArtifacts :
              asr[a].st = "rejected" => (asr'[a] = asr[a] /\ asrLoads'[a] = asrLoads[a])
        /\ \A a \in TrArtifacts :
              trn[a].st = "rejected" => (trn'[a] = trn[a] /\ trnLoads'[a] = trnLoads[a])
        /\ \A i \in 1..Len(tasks) :
              (HoldsFailure(tasks[i]) /\ Len(tasks') >= Len(tasks)) =>
                  tasks'[i] = tasks[i]
        /\ \A i \in 1..Len(tasks') :
              tasks'[i].pc = "awaitInstance" =>
                  \A a \in DOMAIN tasks'[i].inst :
                      LET slot == IF tasks'[i].fn \in {"load", "generate"}
                                  THEN asr[a] ELSE trn[a]
                      IN  slot.st = "rejected" => tasks'[i].inst[a] = slot.id
      ]_vars

\* C13 witness: after a load has failed a further request has called
\* getInstance and holds the failure, with still one load made.
C13_Witness ==
    /\ \E a \in AsrArtifacts : asr[a].st = "rejected" /\ asrLoads[a] = 1
    /\ \E i, j \in 1..Len(tasks) :
          i # j /\ HoldsFailure(tasks[i]) /\ HoldsFailure(tasks[j])

\* C14: the progress callback wired to an artifact's load is the one of the
\* getInstance call that started it (load and loadTranslator pass one,
\* generate and translate pass none) and it never changes afterwards, so a
\* callback passed by a later call is never invoked; progress is posted only
\* for a load in flight whose starting call passed a callback.
C14_OnlyStartingCallback ==
    [][ /\ \A a \in AsrArtifacts :
              /\ asr[a].st # "null" => asr'[a].cb = asr[a].cb
              /\ asrLoads'[a] > asrLoads[a] => asr'[a].cb = Taken("load")
        /\ \A a \in TrArtifacts :
              /\ trn[a].st # "null" => trn'[a].cb = trn[a].cb
              /\ trnLoads'[a] > trnLoads[a] => trn'[a].cb = Taken("load-translator")
        /\ EmittedIs("progress") =>
              LET slot == IF Emitted[1].session = "asr"
                          THEN asr[Emitted[1].file] ELSE trn[Emitted[1].file]
              IN  slot.st = "pending" /\ slot.cb
      ]_vars

\* C14 witness: a load started by a call without a callback is in flight while
\* a later caller that passed one waits on it.
C14_Witness ==
    /\ \E a \in AsrArtifacts : asr[a].st = "pending" /\ ~asr[a].cb
    /\ \E i \in 1..Len(tasks) : tasks[i].fn = "load" /\ tasks[i].pc = "awaitInstance"

\* The step in which the controller handles an update event.
HandlesUpdate ==
    /\ toMain # <<>> /\ Head(toMain).status = "update"
    /\ toMain' = Tail(toMain)

\* C15 (as stated): handling an update event shows the output streamed so
\* far: the transcript becomes the event's output, before complete arrives.
C15_UpdateShowsOutput ==
    [][ HandlesUpdate => text' = Head(toMain).output ]_vars

\* C16 (as stated): whenever the controller posts a generate request its
\* status is ready and its processing flag is idle.
C16_PostedOnlyWhenIdleAndReady ==
    [][ PostedIs("generate") => (status = "ready" /\ ~isProcessing) ]_vars

\* The step in which recorder.ondataavailable handles a flush.
HandlesFlush ==
    /\ recEvents # <<>> /\ Head(recEvents) = "dataavailable"
    /\ recEvents' = Tail(recEvents)

\* C19: a flush whose handling adds no blob to the chunk buffer (it had zero
\* bytes) starts no read and posts nothing, changes no controller state and
\* leaves the recorder alone; it only schedules one timer.  When a timer
\* fires it only asks the recorder for data once.
C19_EmptyFlushOnlyRetries ==
    [][ /\ (HandlesFlush /\ chunks' = chunks) =>
              /\ timers' = timers + 1
              /\ UNCHANGED <<appVars, recorder, reads, toWorker, toMain>>
        /\ (HandlesFlush /\ chunks' # chunks) =>
              (Len(chunks') = Len(chunks) + 1 /\ timers' = timers)
        /\ timers' < timers =>
              /\ timers' = timers - 1
              /\ recEvents' = (IF recorder = "recording"
                               THEN Append(recEvents, "dataavailable") ELSE recEvents)
              /\ UNCHANGED <<appVars, recorder, reads, toWorker, toMain>>
      ]_vars

\* C19 witness: while ready and recording, an empty flush has left a retry
\* timer behind and no read.
C19_Witness ==
    /\ status = "ready" /\ recording
    /\ timers = 1 /\ reads = <<>> /\ chunks = <<>>
    /\ ~isProcessing /\ toWorker = <<>>

\* What a translation target change must leave alone: the capture, the chunk
\* buffer, the recognition language, the transcript, the flags.
C17_Frame ==
    UNCHANGED <<recorder, recEvents, recording, chunks, reads, timers,
                language, text, isProcessing, status, translatorLoaded, toMain>>

\* C17: a change of the remote target runs only the remote path on the
\* current transcript (a blank one clears the remote translation, any other
\* starts a fetch for it) and posts nothing to the worker; a change of the
\* local target starts no fetch and runs the local path only if the
\* translator is loaded (a blank transcript clears the local translation, any
\* other posts a translate request for it with the new target); neither
\* touches capture, chunk buffer, recognition language, transcript or
\* processing flag, and neither posts a generate.
C17_TargetChangeRunsOwnPath ==
    [][ /\ translationLanguage' # translationLanguage =>
              /\ C17_Frame
              /\ Posted = <<>> /\ toWorker' = toWorker
              /\ localTranslatedText' = localTranslatedText
              /\ localTranslationLanguage' = localTranslationLanguage
              /\ IF IsBlank(text)
                 THEN translatedText' = "" /\ fetches' = fetches
                 ELSE translatedText' = translatedText /\ fetches' = Append(fetches, text)
        /\ localTranslationLanguage' # localTranslationLanguage =>
              /\ C17_Frame
              /\ fetches' = fetches /\ translatedText' = translatedText
              /\ translationLanguage' = translationLanguage
              /\ ~PostedIs("generate")
              /\ IF translatorLoaded /\ ~IsBlank(text)
                 THEN /\ toWorker' = Append(toWorker,
                             MsgTranslate(text, language, localTranslationLanguage'))
                      /\ localTranslatedText' = localTranslatedText
                 ELSE /\ toWorker' = toWorker
                      /\ localTranslatedText' =
                             (IF translatorLoaded THEN "" ELSE localTranslatedText)
      ]_vars

\* C17 witness: with capture running, a transcript shown and the translator
\* loaded, the local target has been changed and the translate request for
\* the new target is posted, with no fetch started.
C17_Witness ==
    /\ recorder = "recording" /\ recording /\ status = "ready"
    /\ translatorLoaded /\ text = "hello"
    /\ localTranslationLanguage = "ca"
    /\ toWorker # <<>> /\ Last(toWorker) = MsgTranslate("hello", "en", "ca")
    /\ fetches = <<>> /\ translatedText = "bonjour"

\* C20: when a remote translation request settles - with a translation, or
\* failed: no usable data ('Translation failed') or a throw ('Translation
\* error') - only the remote translated text is replaced, by the translation
\* or by the sentinel; the request is gone and none is started in its place,
\* and status, processing flag, transcript, capture and the local translation
\* are left as they were.
C20_RemoteFailureOnlySetsSentinel ==
    [][ Len(fetches') < Len(fetches) =>
          /\ \E i \in 1..Len(fetches) : fetches' = RemoveAt(fetches, i)
          /\ translatedText' \in
                 Translations \cup {"Translation failed", "Translation error"}
          /\ UNCHANGED <<status, isProcessing, text, language, tps, recording, chunks,
                         captureVars, localTranslatedText, translatorLoaded,
                         workerVars, chanVars>>
      ]_vars

\* C20 witness: the request for the transcript has failed with a throw: the
\* sentinel is shown, nothing is in flight, the transcript is still there.
C20_Witness ==
    /\ translatedText = "Translation error"
    /\ text = "hello" /\ fetches = <<>>
    /\ translatorLoaded /\ localTranslatedText = "bonjour"

IsTranslate(t) == t.fn = "translate"

\* A step of a translation: a fetch starts or settles, a translate request is
\* posted or taken, a translate() call moves or ends, a translation-complete
\* event is emitted or handled.
TranslationStep ==
    \/ fetches' # fetches
    \/ PostedIs("translate") \/ Taken("translate")
    \/ SelectSeq(tasks, IsTranslate) # SelectSeq(tasks', IsTranslate)
    \/ EmittedIs("translation-complete")
    \/ /\ toMain # <<>> /\ Head(toMain).status = "translation-complete"
       /\ toMain' = Tail(toMain)

\* C18: no step of a remote or local translation changes the worker's
\* in-flight flag, and none changes the controller's processing flag - the
\* complete handler, which starts both translations, sets it to idle as it
\* does for every complete and not to busy.  The dispatch gate and the
\* worker's gate read nothing a translation writes.
C18_TranslationsDoNotGate ==
    [][ TranslationStep =>
          /\ processing' = processing
          /\ IF HandlesComplete THEN isProcessing' = FALSE
                                ELSE isProcessing' = isProcessing
          /\ MayProcess(recorder', recording', isProcessing', status')
                = MayProcess(recorder, recording,
                             IF HandlesComplete THEN FALSE ELSE isProcessing, status)
      ]_vars

\* C18 witness: while the remote and the local translation of a transcript
\* are both in flight, the next generate has been dispatched and accepted.
C18_Witness ==
    /\ text = "hello" /\ fetches # <<>>
    /\ \E i \in TranslateTasks : tasks[i].text = "hello"
    /\ GenerateTasks # {} /\ processing /\ isProcessing

\* C21: on a page without WebGPU the session is terminal whatever the user
\* does: there is no capture source and capture is never started, no worker
\* has sent or computed anything, no load, generate, load-translator or
\* translate request is in the channel (none is ever sent), and the status
\* never leaves its initial value.
C21_NoGpuIsTerminal ==
    ~webgpu =>
        /\ recorder = "null" /\ recEvents = <<>> /\ ~recording /\ reads = <<>>
        /\ toWorker = <<>> /\ toMain = <<>>
        /\ tasks = <<>> /\ ~processing
        /\ status = "null" /\ ~translatorLoaded /\ fetches = <<>>

\* C21 witness: without WebGPU the user has used all three selectors.
C21_Witness ==
    /\ ~webgpu
    /\ language = "fr" /\ translationLanguage = "fr" /\ localTranslationLanguage = "ca"

\* The step in which the controller's listener handles an event of this kind.
Handles(kind) ==
    /\ toMain # <<>> /\ Head(toMain).status = kind
    /\ toMain' = Tail(toMain)

\* C22: the ledger's entries follow the initiate and done events file by
\* file.  Handling an initiate for a file adds its entry (if it has none) and
\* touches no other; handling a done for a file removes its entry and touches
\* no other; no other step changes which files have an entry; a progress or
\* a done for a file without an entry, and any record without a file, leaves
\* the whole ledger as it was.  So a file has an entry exactly when an
\* initiate for it was handled with no done for it since, and the ledger is
\* empty once every initiated file had its done.
C22_LedgerFollowsInitiateAndDone ==
    [][ LET e == Head(toMain)
            had == DOMAIN progressItems
            has == DOMAIN progressItems'
        IN  /\ (Handles("initiate") /\ e.file # "") =>
                   /\ has = had \cup {e.file}
                   /\ \A f \in had \ {e.file} : progressItems'[f] = progressItems[f]
            /\ (Handles("done") /\ e.file # "") =>
                   /\ has = had \ {e.file}
                   /\ \A f \in has : progressItems'[f] = progressItems[f]
            /\ (Handles("progress") /\ e.file # "") =>
                   /\ has = had
                   /\ \A f \in had \ {e.file} : progressItems'[f] = progressItems[f]
            /\ ( /\ Handles("progress") \/ Handles("done")
                 /\ e.file \notin had ) => progressItems' = progressItems
            /\ ~(\/ Handles("initiate") /\ e.file # ""
                 \/ Handles("done") /\ e.file # ""
                 \/ Handles("progress") /\ e.file # "") => progressItems' = progressItems
      ]_vars

\* C22 witness: two files were initiated and one of them is done: the other
\* still has its entry, updated by a progress, and its done is next.
C22_Witness ==
    /\ DOMAIN progressItems = {"model.onnx"}
    /\ progressItems["model.onnx"].progress = <<50>>
    /\ toMain # <<>> /\ Head(toMain) = EvFile("done", "model.onnx", 50)

C24_TranslateOnlyWhenLoaded ==
    [][ /\ PostedIs("translate") => translatorLoaded'
        /\ (PostedIs("translate") /\ ~translatorLoaded) => Handles("translator-ready")
      ]_vars

\* C24 witness: the translator is loaded and a translate request for the
\* transcript, with the target the selector started with, is in the channel.
C24_Witness ==
    /\ translatorLoaded /\ localTranslationLanguage = "en"
    /\ toWorker # <<>> /\ Head(toWorker) = MsgTranslate("hello", language, "en")

\* C25 (as stated): the capture source is started - by the ready handler,
\* the recognition language selector or the reset button - only when the
\* status is ready, never while it is uninitialized or loading.
C25_CaptureStartsOnlyWhenReady ==
    [][ (recorder # "recording" /\ recorder' = "recording") => status' = "ready" ]_vars

\* A complete event is in the channel to the controller.
CompleteInTransit == \E i \in 1..Len(toMain) : toMain[i].status = "complete"

\* C26 (as stated): whenever the controller's processing flag is busy, the
\* worker's in-flight flag is set or a complete event is in transit, and
\* something is left that can return the controller to idle: a generate()
\* call still running, or a complete event in transit.
C26_BusyHasCompleteAhead ==
    isProcessing =>
        /\ processing \/ CompleteInTransit
        /\ GenerateTasks # {} \/ CompleteInTransit

\* What translateText() can show for a request issued on this transcript:
\* nothing for a blank one, else the translation or a sentinel.
RemoteResultsFor(txt) ==
    IF IsBlank(txt) THEN {""}
    ELSE {RemoteResult(o, t, "") : o \in {"ok", "empty", "threw"}, t \in Translations}

\* C27 (as stated): every trigger of the remote path - a complete, a remote
\* target change - works on the transcript of that moment, so the most
\* recently issued request is the one for the current transcript.  Once no
\* request is in flight the remote translation shown is that request's
\* result, and it is empty if the most recent trigger saw a blank transcript:
\* the response of an earlier request has not replaced it.
C27_LatestRemoteRequestWins ==
    fetches = <<>> => translatedText \in RemoteResultsFor(text)

\* A local translation is outstanding: its request is in the channel, the
\* worker's translate() is running, or its result is in the channel back.
LocalTranslationOutstanding ==
    \/ \E i \in 1..Len(toWorker) : toWorker[i].type = "translate"
    \/ TranslateTasks # {}
    \/ \E i \in 1..Len(toMain) : toMain[i].status = "translation-complete"

\* C28 (as stated): whenever the transcript is empty and no local
\* translation is outstanding, the local translated text is empty.
C28_NoStaleLocalTranslation ==
    (text = "" /\ ~LocalTranslationOutstanding) => localTranslatedText = ""

\* C29 (as stated): recognition never gets stuck for good.  Whenever the
\* worker's in-flight flag is set it is eventually cleared, and whenever the
\* controller's processing flag is busy it eventually returns to idle - also
\* after getInstance, processor( audio ) or model.generate failed for an
\* accepted generate.
C29_FlagsReturnToIdle ==
    /\ processing ~> ~processing
    /\ isProcessing ~> ~isProcessing

====
